---- MODULE Spec2Model ----
(***************************************************************************)
(* HydraTrack (src/app.js): the progression state of the water tracker,    *)
(* its rules engine (addWater, addXP, checkLevelUp, checkAchievements),    *)
(* the day rollover (checkNewDay), the settings edit, the local store and  *)
(* the remote copy with the merge performed on sign-in and on a resumed    *)
(* session.                                                                *)
(***************************************************************************)
EXTENDS Integers, Sequences, FiniteSets, TLC

\* ------------------------------------------------------------------ bounds
\* Last calendar day the clock reaches (days are 0..MaxDay).
MaxDay == 2
\* Number of addWater calls over the whole run.
MaxCalls == 3
\* Number of addWater calls over the whole run when the remote copy is in
\* play (specification Spec).
MaxSyncCalls == 2
\* Last calendar day the clock reaches in specification Spec.
MaxSyncDay == 1
\* Number of resetProgress calls over the whole run.
MaxResets == 1
\* Number of remote requests on the wire that no handler awaits.
MaxInflight == 1

\* ------------------------------------------------------- clock and inputs
\* The clock is an instant counter; a calendar day has SlotsPerDay instants,
\* whose local hours are HourOf (one before 8, one at midday, one after 22).
HourOf == <<7, 12>>
SlotsPerDay == Len(HourOf)
MaxNow == (MaxDay + 1) * SlotsPerDay - 1

\* null of JavaScript, for a date or an instant.
Null == -1
\* NaN, the result of parseInt on text that is not a number.
NaN == -2

\* Amounts passed to addWater: a glass, a bottle, the daily goal at once,
\* and a bulk amount that alone crosses several level thresholds.
Amounts == {250, 2000, 100000}
\* Values parseInt(goalInput.value) can give in saveSettings.
GoalInputs == {NaN, 499, 500, 5000, 5001}
\* The inputs of the specification with the remote copy: a glass and the
\* daily goal at once; the goal set to either end of its range.
SyncAmounts == {1000, 1500, 100000}
SyncSettingsInputs ==
  { [goal |-> g, sound |-> TRUE, notif |-> FALSE] : g \in {500} }

\* The settings form as submitted: the goal text parsed and the two toggles.
SettingsInputs ==
  { [goal |-> g, sound |-> (g # 5000), notif |-> (g = 5000)] : g \in GoalInputs }

\* new Date(t).toDateString(): the calendar day of instant t.
toDateString(t) == t \div SlotsPerDay
\* new Date(t).getHours(): the local hour of instant t.
getHours(t) == HourOf[(t % SlotsPerDay) + 1]

\* ------------------------------------------------------------ level table
levels ==
  <<0, 100, 250, 500, 800, 1200, 1700, 2300, 3000, 4000>>

\* ------------------------------------------------------------ achievements
achievementsDef ==
  << [id |-> "first_drop",       xp |-> 25],
     [id |-> "getting_started",  xp |-> 50],
     [id |-> "hydration_habit",  xp |-> 75],
     [id |-> "week_warrior",     xp |-> 150],
     [id |-> "hydration_hero",   xp |-> 300],
     [id |-> "monthly_master",   xp |-> 500],
     [id |-> "liter_club",       xp |-> 50],
     [id |-> "early_bird",       xp |-> 40],
     [id |-> "night_owl",        xp |-> 40],
     [id |-> "ocean_drinker",    xp |-> 100],
     [id |-> "river_runner",     xp |-> 200],
     [id |-> "waterfall_wonder", xp |-> 400],
     [id |-> "level_5",          xp |-> 100],
     [id |-> "level_10",         xp |-> 250],
     [id |-> "perfectionist",    xp |-> 200] >>

AchIds == { achievementsDef[i].id : i \in 1..Len(achievementsDef) }

\* The xp reward of achievement id.
xpOf(id) ==
  LET i == CHOOSE j \in 1..Len(achievementsDef) : achievementsDef[j].id = id
  IN  achievementsDef[i].xp

\* The condition closure of achievement id, on state s.
condition(id, s) ==
  CASE id = "first_drop"       -> s.stats.glassesCount >= 1
    [] id = "getting_started"  -> s.stats.perfectDays >= 1
    [] id = "hydration_habit"  -> s.streak >= 3
    [] id = "week_warrior"     -> s.streak >= 7
    [] id = "hydration_hero"   -> s.streak >= 14
    [] id = "monthly_master"   -> s.streak >= 30
    [] id = "liter_club"       -> \E i \in 1..Len(s.history) : s.history[i].amount >= 1000
    [] id = "early_bird"       -> \E i \in 1..Len(s.history) : getHours(s.history[i].timestamp) < 8
    [] id = "night_owl"        -> \E i \in 1..Len(s.history) : getHours(s.history[i].timestamp) >= 22
    [] id = "ocean_drinker"    -> s.stats.totalWater >= 10000
    [] id = "river_runner"     -> s.stats.totalWater >= 50000
    [] id = "waterfall_wonder" -> s.stats.totalWater >= 100000
    [] id = "level_5"          -> s.level >= 5
    [] id = "level_10"         -> s.level >= 10
    [] id = "perfectionist"    -> s.stats.perfectDays >= 10

\* ------------------------------------------------------------------ state
\* The state object the constructor builds.  achievements[id] is the
\* unlockedAt instant of id, Null while the key is absent.
defaultState ==
  [ currentIntake |-> 0,
    dailyGoal     |-> 2000,
    xp            |-> 0,
    totalXp       |-> 0,
    level         |-> 1,
    streak        |-> 0,
    lastDrinkDate |-> Null,
    history       |-> << >>,
    achievements  |-> [id \in AchIds |-> Null],
    settings      |-> [ soundEnabled         |-> TRUE,
                        notificationsEnabled |-> FALSE,
                        reminderInterval     |-> 60,
                        startTime            |-> "08:00",
                        endTime              |-> "22:00" ],
    stats         |-> [ totalDays    |-> 0,
                        totalWater   |-> 0,
                        perfectDays  |-> 0,
                        bestStreak   |-> 0,
                        glassesCount |-> 0 ] ]

VARIABLES
  state,            \* this.state
  store,            \* localStorage['hydratrack_state']: {} or {document}
  cloud,            \* the remote state document: {} or {document}
  session,          \* the identity provider holds a valid session
  isAuthenticated,  \* this.isAuthenticated
  syncTimer,        \* syncManager.syncTimer and the object its callback holds
  flow,             \* where handleSignIn / checkExistingSession is suspended
  inflight,         \* remote requests sent and not awaited by a flow
  now,              \* the clock, as an instant
  calls,            \* the amounts passed to addWater so far, in order
  resets,           \* number of resetProgress calls so far
  last,             \* what the most recent operation was and reported
  rpc               \* the most recent call of a SyncManager method, with its result

vars == <<state, store, cloud, session, isAuthenticated, syncTimer, flow,
          inflight, now, calls, resets, last, rpc>>

today == toDateString(now)

\* What an operation hands to presentation, and which branch it took.
report(op) ==
  [ op |-> op, amount |-> 0, xpGained |-> 0, goalReached |-> FALSE,
    shown |-> << >>, unlocked |-> << >>, levelUps |-> << >>,
    branch |-> "none", prevStreak |-> 0 ]

\* JSON.stringify(state): NaN is written as null.
JSONstringify(s) ==
  [s EXCEPT !.settings.reminderInterval = IF @ = NaN THEN Null ELSE @]

\* { ...a, ...b }: the keys of b override those of a, key by key at top level.
spread(a, b) ==
  [k \in (DOMAIN a) \cup (DOMAIN b) |-> IF k \in DOMAIN b THEN b[k] ELSE a[k]]

\* ------------------------------------------------------------ rules engine
\* A context r threads the state object through one handler together with
\* what the handler shows: r.st is this.state, r.shown the achievements given
\* to showAchievementUnlocked, r.unlocked the achievements unlocked, in
\* order, r.levelUps the levels given to showLevelUp.

\* The loop of checkLevelUp: scan the table from level i down to 1 and take
\* the first level whose xpRequired is at most totalXp (1 when none is).
RECURSIVE levelScan(_, _)
levelScan(i, totalXp) ==
  IF i = 0 THEN 1
  ELSE IF totalXp >= levels[i] THEN i
  ELSE levelScan(i - 1, totalXp)

RECURSIVE checkAchievements(_), grantAll(_, _)

\* Mutant of checkLevelUp: the scan starts one entry below the top of the
\* table, so that level 10 is never found.
checkLevelUpSkipsTop(r) ==
  LET currentLevel == r.st.level
      newLevel     == levelScan(Len(levels) - 1, r.st.totalXp)
  IN  IF newLevel > currentLevel
        THEN checkAchievements([r EXCEPT !.st.level = newLevel,
                                         !.levelUps = Append(@, newLevel)])
        ELSE r

\* Mutant of checkLevelUp: a level-up does not start a new evaluation pass.
checkLevelUpNoRecheck(r) ==
  LET currentLevel == r.st.level
      newLevel     == levelScan(Len(levels), r.st.totalXp)
  IN  IF newLevel > currentLevel
        THEN [r EXCEPT !.st.level = newLevel,
                       !.levelUps = Append(@, newLevel)]
        ELSE r

checkLevelUp(r) ==
  LET currentLevel == r.st.level
      newLevel     == levelScan(Len(levels), r.st.totalXp)
  IN  IF newLevel > currentLevel
        THEN checkAchievements([r EXCEPT !.st.level = newLevel,
                                         !.levelUps = Append(@, newLevel)])
        ELSE r

addXP(r, amount) ==
  checkLevelUp([r EXCEPT !.st.xp = @ + amount, !.st.totalXp = @ + amount])

\* newAchievements.forEach(a => this.addXP(a.xp))
grantAll(r, ids) ==
  IF ids = << >> THEN r
  ELSE grantAll(addXP(r, xpOf(Head(ids))), Tail(ids))

\* Mutant of checkAchievements: only the first new achievement is recorded
\* in state.achievements; the rewards of all of them are granted.
checkAchievementsMarksFirst(r) ==
  LET catalog == [i \in 1..Len(achievementsDef) |-> achievementsDef[i].id]
      isNew(id) == r.st.achievements[id] = Null /\ condition(id, r.st)
      newAchievements == SelectSeq(catalog, isNew)
      marked == [r EXCEPT !.st.achievements =
                   [id \in AchIds |->
                      IF newAchievements # << >> /\ id = newAchievements[1]
                        THEN now ELSE @[id]]]
  IN  IF Len(newAchievements) > 0
        THEN grantAll([marked EXCEPT !.shown = Append(@, newAchievements[1]),
                                     !.unlocked = @ \o newAchievements],
                      newAchievements)
        ELSE marked

\* Mutant of checkAchievements: the unlocks are recorded after the rewards
\* have been granted, so a pass nested in a level-up finds them again.
checkAchievementsMarksLate(r) ==
  LET catalog == [i \in 1..Len(achievementsDef) |-> achievementsDef[i].id]
      isNew(id) == r.st.achievements[id] = Null /\ condition(id, r.st)
      newAchievements == SelectSeq(catalog, isNew)
      newIds == { newAchievements[i] : i \in 1..Len(newAchievements) }
      granted == grantAll([r EXCEPT !.shown = Append(@, newAchievements[1]),
                                    !.unlocked = @ \o newAchievements],
                          newAchievements)
  IN  IF Len(newAchievements) > 0
        THEN [granted EXCEPT !.st.achievements =
                [id \in AchIds |-> IF id \in newIds /\ @[id] = Null
                                     THEN now ELSE @[id]]]
        ELSE r

\* One evaluation pass.  The first loop marks every achievement that is not
\* unlocked and whose condition holds (the conditions do not read
\* achievements, so marking one does not change the condition of another);
\* then the first is shown and the rewards are granted in catalog order.
checkAchievements(r) ==
  LET catalog == [i \in 1..Len(achievementsDef) |-> achievementsDef[i].id]
      isNew(id) == r.st.achievements[id] = Null /\ condition(id, r.st)
      newAchievements == SelectSeq(catalog, isNew)
      newIds == { newAchievements[i] : i \in 1..Len(newAchievements) }
      marked == [r EXCEPT !.st.achievements =
                   [id \in AchIds |-> IF id \in newIds THEN now ELSE @[id]]]
  IN  IF Len(newAchievements) > 0
        THEN grantAll([marked EXCEPT !.shown = Append(@, newAchievements[1]),
                                     !.unlocked = @ \o newAchievements],
                      newAchievements)
        ELSE marked

\* Mutant of handleGoalAchieved: bestStreak is compared with the streak
\* before its increment.
handleGoalAchievedStaleBest(r) ==
  LET old == r.st.streak
      r1 == [r EXCEPT !.st.streak = old + 1,
                      !.st.stats.bestStreak = IF old > @ THEN old ELSE @,
                      !.st.stats.perfectDays = @ + 1,
                      !.st.stats.totalDays = @ + 1,
                      !.goalReached = TRUE]
  IN  addXP(r1, 100)

\* Mutant of handleGoalAchieved: totalDays is not incremented.
handleGoalAchievedNoTotalDays(r) ==
  LET streak == r.st.streak + 1
      r1 == [r EXCEPT !.st.streak = streak,
                      !.st.stats.bestStreak = IF streak > @ THEN streak ELSE @,
                      !.st.stats.perfectDays = @ + 1,
                      !.goalReached = TRUE]
  IN  addXP(r1, 100)

handleGoalAchieved(r) ==
  LET streak == r.st.streak + 1
      r1 == [r EXCEPT !.st.streak = streak,
                      !.st.stats.bestStreak = IF streak > @ THEN streak ELSE @,
                      !.st.stats.perfectDays = @ + 1,
                      !.st.stats.totalDays = @ + 1,
                      !.goalReached = TRUE]
  IN  addXP(r1, 100)

\* Mutant of logEntry: glassesCount is not incremented.
logEntryNoCount(r0, amount) ==
  LET entry == [amount |-> amount, timestamp |-> now, date |-> toDateString(now)]
  IN  [r0 EXCEPT !.st.currentIntake = @ + amount,
                 !.st.lastDrinkDate = toDateString(now),
                 !.st.history = Append(@, entry),
                 !.st.stats.totalWater = @ + amount,
                 !.amount = amount]

\* The first statements of addWater: the intake, the date, the history entry
\* and the stats.
logEntry(r0, amount) ==
  LET entry == [amount |-> amount, timestamp |-> now, date |-> toDateString(now)]
  IN  [r0 EXCEPT !.st.currentIntake = @ + amount,
                 !.st.lastDrinkDate = toDateString(now),
                 !.st.history = Append(@, entry),
                 !.st.stats.glassesCount = @ + 1,
                 !.st.stats.totalWater = @ + amount,
                 !.amount = amount]

\* Mutant of goalCrossed: the goal must be exceeded, not just reached.
goalCrossedStrict(previousIntake, s) ==
  previousIntake < s.dailyGoal /\ s.currentIntake > s.dailyGoal

\* The goal test of addWater, previousIntake being the intake at its entry.
goalCrossed(previousIntake, s) ==
  previousIntake < s.dailyGoal /\ s.currentIntake >= s.dailyGoal

\* The body of addWater up to, not including, its closing saveState.
addWaterBody(r0, amount) ==
  LET previousIntake == r0.st.currentIntake
      r1 == logEntry(r0, amount)
      xpGained == amount \div 25
      r2 == addXP([r1 EXCEPT !.xpGained = xpGained], xpGained)
      r3 == IF goalCrossed(previousIntake, r2.st)
              THEN handleGoalAchieved(r2)
              ELSE r2
  IN  checkAchievements(r3)

\* ------------------------------------------------------------ day rollover
RECURSIVE sumAmounts(_)
sumAmounts(h) == IF h = << >> THEN 0 ELSE Head(h).amount + sumAmounts(Tail(h))

getIntakeForDate(s, date) ==
  LET onDate(h) == toDateString(h.timestamp) = date
  IN  sumAmounts(SelectSeq(s.history, onDate))

\* Which branch checkNewDay takes on state s.
newDayBranch(s) ==
  LET lastDate == s.lastDrinkDate
      yesterday == today - 1
  IN  IF lastDate # Null /\ lastDate # today
        THEN IF lastDate = yesterday
               THEN IF getIntakeForDate(s, yesterday) < s.dailyGoal
                      THEN "yesterdayMissed" ELSE "yesterdayMet"
               ELSE "gap"
        ELSE IF lastDate = Null THEN "unset" ELSE "sameDay"

\* Mutant of checkNewDayBody: a day that just reached the goal counts as
\* missed (<= for <).
checkNewDayBodyLeq(s) ==
  LET lastDate == s.lastDrinkDate
      yesterday == today - 1
  IN  IF lastDate # Null /\ lastDate # today
        THEN LET s1 == IF lastDate = yesterday
                         THEN IF getIntakeForDate(s, yesterday) <= s.dailyGoal
                                THEN [s EXCEPT !.streak = 0]
                                ELSE s
                         ELSE [s EXCEPT !.streak = 0]
             IN  [s1 EXCEPT !.currentIntake = 0]
        ELSE s

\* Mutant of checkNewDayBody: after a gap the streak is reset only when the
\* last active day missed the goal.
checkNewDayBodyGapChecksGoal(s) ==
  LET lastDate == s.lastDrinkDate
  IN  IF lastDate # Null /\ lastDate # today
        THEN LET s1 == IF getIntakeForDate(s, lastDate) < s.dailyGoal
                         THEN [s EXCEPT !.streak = 0]
                         ELSE s
             IN  [s1 EXCEPT !.currentIntake = 0]
        ELSE s

\* Mutant of checkNewDayBody: the intake is reset outside the day test.
checkNewDayBodyAlwaysResets(s) ==
  LET lastDate == s.lastDrinkDate
      yesterday == today - 1
      s1 == IF lastDate # Null /\ lastDate # today
              THEN IF lastDate = yesterday
                     THEN IF getIntakeForDate(s, yesterday) < s.dailyGoal
                            THEN [s EXCEPT !.streak = 0]
                            ELSE s
                     ELSE [s EXCEPT !.streak = 0]
              ELSE s
  IN  [s1 EXCEPT !.currentIntake = 0]

\* Mutant of checkNewDayBody: the rollover also moves lastDrinkDate to today.
checkNewDayBodyStampsDate(s) ==
  LET lastDate == s.lastDrinkDate
      yesterday == today - 1
  IN  IF lastDate # Null /\ lastDate # today
        THEN LET s1 == IF lastDate = yesterday
                         THEN IF getIntakeForDate(s, yesterday) < s.dailyGoal
                                THEN [s EXCEPT !.streak = 0]
                                ELSE s
                         ELSE [s EXCEPT !.streak = 0]
             IN  [s1 EXCEPT !.currentIntake = 0, !.lastDrinkDate = today]
        ELSE s

\* The body of checkNewDay up to, not including, its closing saveState.
checkNewDayBody(s) ==
  LET lastDate == s.lastDrinkDate
      yesterday == today - 1
  IN  IF lastDate # Null /\ lastDate # today
        THEN LET s1 == IF lastDate = yesterday
                         THEN IF getIntakeForDate(s, yesterday) < s.dailyGoal
                                THEN [s EXCEPT !.streak = 0]
                                ELSE s
                         ELSE [s EXCEPT !.streak = 0]
             IN  [s1 EXCEPT !.currentIntake = 0]
        ELSE s

\* ---------------------------------------------------------- level progress
\* Mutant of getXPForCurrentLevel: no sentinel at the top of the table.
getXPForCurrentLevelNoSentinel(s) ==
  LET currentXp == levels[s.level]
      nextXp == IF s.level + 1 <= Len(levels) THEN levels[s.level + 1]
                ELSE levels[s.level] + 1
  IN  [ current |-> s.totalXp - currentXp,
        required |-> nextXp - currentXp,
        percentage |-> [num |-> (s.totalXp - currentXp) * 100,
                        den |-> nextXp - currentXp] ]

\* getXPForCurrentLevel, on state s; the percentage (x / y) * 100 is kept as
\* the fraction num / den.
getXPForCurrentLevel(s) ==
  IF s.level + 1 > Len(levels)
    THEN [ current |-> 0, required |-> 1,
           percentage |-> [num |-> 100, den |-> 1] ]
    ELSE LET xpIntoCurrentLevel == s.totalXp - levels[s.level]
             xpRequiredForNext == levels[s.level + 1] - levels[s.level]
         IN  [ current |-> xpIntoCurrentLevel,
               required |-> xpRequiredForNext,
               percentage |-> [num |-> xpIntoCurrentLevel * 100,
                               den |-> xpRequiredForNext] ]

\* ---------------------------------------------------------------- settings
\* Mutant of saveSettingsBody: the goal is only checked against its lower
\* end.
saveSettingsBodyNoUpper(s, newGoal, sound, notif) ==
  LET s1 == IF newGoal >= 500
              THEN [s EXCEPT !.dailyGoal = newGoal] ELSE s
  IN  [s1 EXCEPT !.settings.soundEnabled = sound,
                 !.settings.notificationsEnabled = notif]

\* The assignments of saveSettings before its saveState.
saveSettingsBody(s, newGoal, sound, notif) ==
  LET s1 == IF newGoal >= 500 /\ newGoal <= 5000
              THEN [s EXCEPT !.dailyGoal = newGoal] ELSE s
  IN  [s1 EXCEPT !.settings.soundEnabled = sound,
                 !.settings.notificationsEnabled = notif]

\* ------------------------------------------------------------- local store
\* loadState, on the default state the constructor has just built.
loadState(s, st) ==
  IF st # {} THEN spread(s, CHOOSE d \in st : TRUE) ELSE s

\* A handler's context at its entry.
enter(op) == [st |-> state] @@ report(op)

\* What is kept of a context once the handler has returned.
reported(r) == [k \in DOMAIN report("") |-> r[k]]

\* -------------------------------------------------------------- sync timer
noTimer == [armed |-> FALSE, stale |-> {}]

\* debouncedSave(this.state): the pending timer is cleared and a new one is
\* armed, whose callback holds the object that is this.state now.
debouncedSave == [armed |-> TRUE, stale |-> {}]

\* saveState, when this.state is s.
saveState(s) ==
  /\ store' = {JSONstringify(s)}
  /\ syncTimer' = IF isAuthenticated THEN debouncedSave ELSE syncTimer

\* The timer after this.state has been assigned a new object while the
\* object it was is old: an armed callback keeps the old object.
afterReplace(old) ==
  IF syncTimer.armed /\ syncTimer.stale = {}
    THEN [armed |-> TRUE, stale |-> {old}]
    ELSE syncTimer

noFlow == [pc |-> "idle", body |-> {}]

\* ------------------------------------------------- SyncManager, call by call
\* What await this.auth.getToken() gives: a token, null (no user, or no valid
\* session), or a rejection.
Tokens == {"token", "null", "rejects"}

\* HTTP statuses the remote answers with.
Statuses == {200, 204, 299, 300, 404, 500}

\* What await fetch(...) gives: a rejection (network error) or a response
\* with a status and a body that res.json() parses or fails to parse.
Responses ==
  {[kind |-> "rejects", status |-> 0, json |-> "none"]} \cup
  { [kind |-> "response", status |-> s, json |-> j] :
      s \in Statuses, j \in {"parses", "fails"} }

\* Response.ok
resOk(status) == status >= 200 /\ status <= 299

\* How a try block, and an async method, ends.
returns(v) == [kind |-> "return", value |-> v]
throws == [kind |-> "throw", value |-> FALSE]

\* try { ... } catch (err) { return fallback }
catch(t, fallback) == IF t.kind = "throw" THEN returns(fallback) ELSE t

\* The try block of loadFromCloud; doc is the remote document ({} for null).
loadFromCloudTry(token, res, doc) ==
  IF token = "rejects" THEN throws
  ELSE IF token = "null" THEN returns({})
  ELSE IF res.kind = "rejects" THEN throws
  ELSE IF res.status = 404 THEN returns({})
  ELSE IF ~resOk(res.status) THEN throws
  ELSE IF res.json = "fails" THEN throws
  ELSE returns(doc)

loadFromCloud(token, res, doc) == catch(loadFromCloudTry(token, res, doc), {})

\* The try block of saveToCloud.
saveToCloudTry(token, res) ==
  IF token = "rejects" THEN throws
  ELSE IF token = "null" THEN returns(FALSE)
  ELSE IF res.kind = "rejects" THEN throws
  ELSE returns(resOk(res.status))

\* Mutant of saveToCloud: no catch around the try block.
saveToCloudNoCatch(token, res) == saveToCloudTry(token, res)

saveToCloud(token, res) == catch(saveToCloudTry(token, res), FALSE)

\* The try block of deleteFromCloud.
deleteFromCloudTry(token, res) ==
  IF token = "rejects" THEN throws
  ELSE IF token = "null" THEN returns(FALSE)
  ELSE IF res.kind = "rejects" THEN throws
  ELSE returns(resOk(res.status))

deleteFromCloud(token, res) == catch(deleteFromCloudTry(token, res), FALSE)

\* The remote applied the request: it was sent and answered with a 2xx.
applied(token, res) ==
  token = "token" /\ res.kind = "response" /\ resOk(res.status)

noRpc ==
  [ op |-> "none", token |-> "null",
    res |-> [kind |-> "rejects", status |-> 0, json |-> "none"],
    result |-> returns(FALSE) ]

\* ------------------------------------------------------------------- Init
\* The first run: nothing stored, no session; init() has loaded nothing,
\* checkNewDay has saved the default state.
Init ==
  /\ state = defaultState
  /\ store = {JSONstringify(defaultState)}
  /\ cloud = {}
  /\ session = FALSE
  /\ isAuthenticated = FALSE
  /\ syncTimer = noTimer
  /\ flow = noFlow
  /\ inflight = {}
  /\ now = 0
  /\ calls = << >>
  /\ resets = 0
  /\ last = report("init")
  /\ rpc = noRpc

\* ---------------------------------------------------------------- actions
\* Time passes to the next instant.
Tick(dt) ==
  /\ now + dt <= MaxNow
  /\ now' = now + dt
  /\ UNCHANGED <<state, store, cloud, session, isAuthenticated, syncTimer,
                 flow, inflight, calls, resets>>

\* Mutant of addWater: while a remote call is pending the local write is
\* put off.
addWaterDefersStore(amount) ==
  /\ Len(calls) < MaxCalls
  /\ LET r == addWaterBody(enter("addWater"), amount)
     IN  /\ state' = r.st
         /\ IF flow.pc = "idle" /\ inflight = {}
              THEN saveState(r.st)
              ELSE UNCHANGED <<store, syncTimer>>
  /\ calls' = Append(calls, amount)
  /\ UNCHANGED <<cloud, session, isAuthenticated, flow, inflight, now, resets>>

addWater(amount) ==
  /\ Len(calls) < MaxCalls
  /\ LET r == addWaterBody(enter("addWater"), amount)
     IN  /\ state' = r.st
         /\ saveState(r.st)
  /\ calls' = Append(calls, amount)
  /\ UNCHANGED <<cloud, session, isAuthenticated, flow, inflight, now, resets>>

\* The visibilitychange handler: checkNewDay on the running application.
checkNewDay ==
  /\ state' = checkNewDayBody(state)
  /\ saveState(state')
  /\ UNCHANGED <<cloud, session, isAuthenticated, flow, inflight, now, calls,
                 resets>>

saveSettings(newGoal, sound, notif) ==
  /\ state' = saveSettingsBody(state, newGoal, sound, notif)
  /\ saveState(state')
  /\ UNCHANGED <<cloud, session, isAuthenticated, flow, inflight, now, calls,
                 resets>>

\* The page is loaded: the constructor and init().  loadState and checkNewDay
\* run with isAuthenticated false; checkExistingSession then finds the
\* session, if any, and suspends on loadFromCloud.  Timers and suspended
\* handlers of the previous page are gone; a PUT the sign-in was awaiting
\* stays on the wire.
pageLoad(stored) ==
  /\ state' = checkNewDayBody(loadState(defaultState, stored))
  /\ store' = {JSONstringify(state')}
  /\ syncTimer' = noTimer
  /\ isAuthenticated' = session
  /\ flow' = IF session THEN [pc |-> "sessionLoad", body |-> {}] ELSE noFlow

\* The requests of the previous page that stay on the wire.
leftOnWire ==
  inflight \cup
    (IF flow.pc = "signInPut" /\ flow.body # {}
       THEN {[kind |-> "PUT", body |-> flow.body]} ELSE {})

init ==
  /\ Cardinality(leftOnWire) <= MaxInflight
  /\ pageLoad(store)
  /\ inflight' = leftOnWire
  /\ UNCHANGED <<cloud, session, now, calls, resets>>

\* resetProgress, confirmed: removeItem, deleteFromCloud when authenticated
\* (it sends DELETE when getToken gives a token), location.reload().
resetProgress ==
  /\ resets < MaxResets
  /\ resets' = resets + 1
  /\ pageLoad({})
  /\ inflight' = leftOnWire \cup
       (IF isAuthenticated /\ session
          THEN {[kind |-> "DELETE", body |-> {}]} ELSE {})
  /\ Cardinality(inflight') <= MaxInflight
  /\ UNCHANGED <<cloud, session, now, calls>>

\* Mutant of cloudWins: the remote copy wins on totalXp alone.
cloudWinsXpOnly(cloudState, s) ==
  cloudState.totalXp > s.totalXp

\* The progress-dominance test of the merge.
cloudWins(cloudState, s) ==
  \/ cloudState.totalXp > s.totalXp
  \/ cloudState.stats.totalWater > s.stats.totalWater

\* The state after the merge with what loadFromCloud resolved to.
merged(s, res) ==
  IF res # {} /\ cloudWins(CHOOSE d \in res : TRUE, s)
    THEN spread(s, CHOOSE d \in res : TRUE)
    ELSE s

\* What a GET /state can resolve loadFromCloud to: the document, or null
\* (404, another status, a network error).
getResults == {cloud, {}}

\* handleSignIn, authentication accepted: isAuthenticated is set and the
\* handler suspends on loadFromCloud.
handleSignIn ==
  /\ ~isAuthenticated
  /\ flow.pc = "idle"
  /\ session' = TRUE
  /\ isAuthenticated' = TRUE
  /\ flow' = [pc |-> "signInLoad", body |-> {}]
  /\ UNCHANGED <<state, store, cloud, syncTimer, inflight, now, calls, resets>>

\* Mutant of handleSignInFailed: the flag is set before signIn is awaited.
handleSignInFailedKeepsFlag ==
  /\ ~isAuthenticated
  /\ flow.pc = "idle"
  /\ isAuthenticated' = TRUE
  /\ UNCHANGED <<state, store, cloud, session, syncTimer, flow, inflight, now,
                 calls, resets>>

\* handleSignIn, authentication rejected: the error is shown.
handleSignInFailed ==
  /\ ~isAuthenticated
  /\ flow.pc = "idle"
  /\ UNCHANGED <<state, store, cloud, session, isAuthenticated, syncTimer,
                 flow, inflight, now, calls, resets>>

\* handleSignIn resumes with the result of loadFromCloud: merge, then
\* saveToCloud(this.state), which sends PUT when getToken gives a token and
\* resolves to false at once when it does not.
signInLoaded(res) ==
  /\ flow.pc = "signInLoad"
  /\ state' = merged(state, res)
  /\ syncTimer' = IF state' # state THEN afterReplace(state) ELSE syncTimer
  /\ flow' = [pc |-> "signInPut",
              body |-> IF session THEN {JSONstringify(state')} ELSE {}]
  /\ UNCHANGED <<store, cloud, session, isAuthenticated, inflight, now, calls,
                 resets>>

\* handleSignIn resumes with the result of saveToCloud, then saveStateLocal.
signInPutDone(ok) ==
  /\ flow.pc = "signInPut"
  /\ cloud' = IF ok /\ flow.body # {} THEN flow.body ELSE cloud
  /\ store' = {JSONstringify(state)}
  /\ flow' = noFlow
  /\ UNCHANGED <<state, session, isAuthenticated, syncTimer, inflight, now,
                 calls, resets>>

\* checkExistingSession resumes with the result of loadFromCloud.
sessionLoaded(res) ==
  /\ flow.pc = "sessionLoad"
  /\ state' = merged(state, res)
  /\ syncTimer' = IF state' # state THEN afterReplace(state) ELSE syncTimer
  /\ store' = IF state' # state THEN {JSONstringify(state')} ELSE store
  /\ flow' = noFlow
  /\ UNCHANGED <<cloud, session, isAuthenticated, inflight, now, calls, resets>>

handleSignOut ==
  /\ isAuthenticated
  /\ session' = FALSE
  /\ isAuthenticated' = FALSE
  /\ UNCHANGED <<state, store, cloud, syncTimer, flow, inflight, now, calls,
                 resets>>

\* Mutant of timerFires: the PUT is sent without asking for a token.
timerFiresNoToken ==
  /\ syncTimer.armed
  /\ Cardinality(inflight) < MaxInflight
  /\ syncTimer' = noTimer
  /\ inflight' = inflight \cup
       {[kind |-> "PUT",
         body |-> IF syncTimer.stale = {}
                    THEN {JSONstringify(state)}
                    ELSE {JSONstringify(CHOOSE o \in syncTimer.stale : TRUE)}]}
  /\ UNCHANGED <<state, store, cloud, session, isAuthenticated, flow, now,
                 calls, resets>>

\* The debounce timer fires: saveToCloud(object held), which sends PUT with
\* the object as it is now when getToken gives a token.
timerFires ==
  /\ syncTimer.armed
  /\ Cardinality(inflight) < MaxInflight
  /\ syncTimer' = noTimer
  /\ inflight' = inflight \cup
       (IF session
          THEN {[kind |-> "PUT",
                 body |-> IF syncTimer.stale = {}
                            THEN {JSONstringify(state)}
                            ELSE {JSONstringify(CHOOSE o \in syncTimer.stale : TRUE)}]}
          ELSE {})
  /\ UNCHANGED <<state, store, cloud, session, isAuthenticated, flow, now,
                 calls, resets>>

\* The remote handles a request that no handler awaits (or fails to).
remoteHandles(m, ok) ==
  /\ m \in inflight
  /\ inflight' = inflight \ {m}
  /\ cloud' = IF ok THEN m.body ELSE cloud
  /\ UNCHANGED <<state, store, session, isAuthenticated, syncTimer, flow, now,
                 calls, resets>>

\* ------------------------------------------- failures seen by the handlers
\* addWater when localStorage.setItem throws: the exception leaves saveState
\* at its first call of the handler (the one that ends a checkAchievements
\* pass), before debouncedSave.  With the amounts of FailAmounts that call is
\* reached when every rule of the handler has run.
addWaterWriteFails(amount) ==
  /\ Len(calls) < MaxCalls
  /\ state' = addWaterBody(enter("addWater"), amount).st
  /\ calls' = Append(calls, amount)
  /\ UNCHANGED <<store, syncTimer, cloud, session, isAuthenticated, flow,
                 inflight, now, resets>>

\* saveSettings when localStorage.setItem throws.
saveSettingsWriteFails(newGoal, sound, notif) ==
  /\ state' = saveSettingsBody(state, newGoal, sound, notif)
  /\ UNCHANGED <<store, syncTimer, cloud, session, isAuthenticated, flow,
                 inflight, now, calls, resets>>

\* handleSignIn resumes with the result of saveToCloud, and setItem throws in
\* saveStateLocal: the catch of the handler shows the message as a sign-in
\* error.
signInPutDoneWriteFails(ok) ==
  /\ flow.pc = "signInPut"
  /\ cloud' = IF ok /\ flow.body # {} THEN flow.body ELSE cloud
  /\ flow' = noFlow
  /\ UNCHANGED <<state, store, session, isAuthenticated, syncTimer, inflight,
                 now, calls, resets>>

\* checkExistingSession resumes with a remote copy that wins, and setItem
\* throws in saveStateLocal: the catch of the handler logs to the console.
sessionLoadedWriteFails(res) ==
  /\ flow.pc = "sessionLoad"
  /\ merged(state, res) # state
  /\ state' = merged(state, res)
  /\ syncTimer' = afterReplace(state)
  /\ flow' = noFlow
  /\ UNCHANGED <<store, cloud, session, isAuthenticated, inflight, now, calls,
                 resets>>

\* A handler that is suspended on an await.
awaits == [kind |-> "await", value |-> FALSE]

\* How saveState ends, and with it the handler that called it: nothing
\* catches.  threw is the call that threw, "none" when none did.
saveStateEnds(threw) ==
  IF threw = "setItem" THEN throws ELSE returns(FALSE)

\* How checkExistingSession ends: its body is one try with a catch.
checkExistingSessionEnds(threw) ==
  catch(IF threw = "setItem" THEN throws ELSE returns(FALSE), FALSE)

\* How handleSignIn ends: signIn and saveStateLocal are inside one try with a
\* catch.
handleSignInEnds(threw) ==
  catch(IF threw \in {"signIn", "setItem"} THEN throws ELSE returns(FALSE),
        FALSE)

\* What is recorded of a step of a handler.
step(op, threw, result) == [op |-> op, threw |-> threw, result |-> result]

\* ------------------------------------------ SyncManager calls, as actions
\* One call of loadFromCloud, from its entry to its resolution.
callLoadFromCloud(token, res) ==
  /\ rpc' = [ op |-> "loadFromCloud", token |-> token, res |-> res,
              result |-> loadFromCloud(token, res, cloud) ]
  /\ UNCHANGED <<state, store, cloud, session, isAuthenticated, syncTimer,
                 flow, inflight, now, calls, resets, last>>

\* One call of saveToCloud(this.state).
callSaveToCloud(token, res) ==
  /\ rpc' = [ op |-> "saveToCloud", token |-> token, res |-> res,
              result |-> saveToCloud(token, res) ]
  /\ cloud' = IF applied(token, res) THEN {JSONstringify(state)} ELSE cloud
  /\ UNCHANGED <<state, store, session, isAuthenticated, syncTimer, flow,
                 inflight, now, calls, resets, last>>

\* One call of deleteFromCloud.
callDeleteFromCloud(token, res) ==
  /\ rpc' = [ op |-> "deleteFromCloud", token |-> token, res |-> res,
              result |-> deleteFromCloud(token, res) ]
  /\ cloud' = IF applied(token, res) THEN {} ELSE cloud
  /\ UNCHANGED <<state, store, session, isAuthenticated, syncTimer, flow,
                 inflight, now, calls, resets, last>>

\* ---------------------------------------------------------- the observer
\* last is what presentation saw of the most recent operation.  It is
\* recorded in SpecLocal; Spec leaves it as it is.
addWaterReport(amount) == reported(addWaterBody(enter("addWater"), amount))

checkNewDayReport ==
  [report("checkNewDay") EXCEPT !.branch = newDayBranch(state),
                                !.prevStreak = state.streak]

\* Every operation, on one device with the remote copy.  A day passes at a
\* time; the inputs are SyncAmounts and SyncSettingsInputs.
Next ==
  \/ today < MaxSyncDay /\ Tick(SlotsPerDay) /\ UNCHANGED <<last, rpc>>
  \/ \E amount \in SyncAmounts :
       Len(calls) < MaxSyncCalls /\ addWater(amount) /\ UNCHANGED <<last, rpc>>
  \/ checkNewDay /\ UNCHANGED <<last, rpc>>
  \/ \E in \in SyncSettingsInputs :
       saveSettings(in.goal, in.sound, in.notif) /\ UNCHANGED <<last, rpc>>
  \/ init /\ UNCHANGED <<last, rpc>>
  \/ resetProgress /\ UNCHANGED <<last, rpc>>
  \/ handleSignIn /\ UNCHANGED <<last, rpc>>
  \/ handleSignInFailed /\ UNCHANGED <<last, rpc>>
  \/ \E res \in getResults : signInLoaded(res) /\ UNCHANGED <<last, rpc>>
  \/ \E ok \in BOOLEAN : signInPutDone(ok) /\ UNCHANGED <<last, rpc>>
  \/ \E res \in getResults : sessionLoaded(res) /\ UNCHANGED <<last, rpc>>
  \/ handleSignOut /\ UNCHANGED <<last, rpc>>
  \/ timerFires /\ UNCHANGED <<last, rpc>>
  \/ \E m \in inflight, ok \in BOOLEAN : remoteHandles(m, ok) /\ UNCHANGED <<last, rpc>>

Spec == Init /\ [][Next]_vars

\* The application used on one device, never signed in and never reset, with
\* every instant of the clock and the inputs Amounts and SettingsInputs.
NextLocal ==
  \/ Tick(1) /\ last' = report("tick") /\ UNCHANGED rpc
  \/ \E amount \in Amounts : addWater(amount) /\ last' = addWaterReport(amount) /\ UNCHANGED rpc
  \/ checkNewDay /\ last' = checkNewDayReport /\ UNCHANGED rpc
  \/ \E in \in SettingsInputs :
       saveSettings(in.goal, in.sound, in.notif) /\ last' = report("saveSettings") /\ UNCHANGED rpc
  \/ init /\ last' = report("init") /\ UNCHANGED rpc

SpecLocal == Init /\ [][NextLocal]_vars

\* The SyncManager methods called one at a time with every outcome of
\* getToken and fetch, on the states a few addWater calls produce.
NextRemote ==
  \/ \E amount \in SyncAmounts :
       Len(calls) < MaxSyncCalls /\ addWater(amount) /\ UNCHANGED <<last, rpc>>
  \/ \E token \in Tokens, res \in Responses : callLoadFromCloud(token, res)
  \/ \E token \in Tokens, res \in Responses : callSaveToCloud(token, res)
  \/ \E token \in Tokens, res \in Responses : callDeleteFromCloud(token, res)

SpecRemote == Init /\ [][NextRemote]_vars

\* The handlers with their failures: authentication rejected, setItem
\* throwing.  rpc records each step; the clock stands still.
FailAmounts == {1500}

NextFailures ==
  \/ \E amount \in FailAmounts :
       /\ Len(calls) < MaxSyncCalls /\ addWater(amount)
       /\ rpc' = step("addWater", "none", saveStateEnds("none"))
       /\ UNCHANGED last
  \/ \E amount \in FailAmounts :
       /\ Len(calls) < MaxSyncCalls /\ addWaterWriteFails(amount)
       /\ rpc' = step("addWater", "setItem", saveStateEnds("setItem"))
       /\ UNCHANGED last
  \/ \E in \in SyncSettingsInputs :
       /\ saveSettings(in.goal, in.sound, in.notif)
       /\ rpc' = step("saveSettings", "none", saveStateEnds("none"))
       /\ UNCHANGED last
  \/ \E in \in SyncSettingsInputs :
       /\ saveSettingsWriteFails(in.goal, in.sound, in.notif)
       /\ rpc' = step("saveSettings", "setItem", saveStateEnds("setItem"))
       /\ UNCHANGED last
  \/ init /\ rpc' = step("init", "none", awaits) /\ UNCHANGED last
  \/ resetProgress /\ rpc' = step("resetProgress", "none", awaits) /\ UNCHANGED last
  \/ handleSignIn /\ rpc' = step("handleSignIn", "none", awaits) /\ UNCHANGED last
  \/ /\ handleSignInFailed
     /\ rpc' = step("handleSignIn", "signIn", handleSignInEnds("signIn"))
     /\ UNCHANGED last
  \/ \E res \in getResults :
       /\ signInLoaded(res)
       /\ rpc' = step("handleSignIn", "none", awaits)
       /\ UNCHANGED last
  \/ \E ok \in BOOLEAN :
       /\ signInPutDone(ok)
       /\ rpc' = step("handleSignIn", "none", handleSignInEnds("none"))
       /\ UNCHANGED last
  \/ \E ok \in BOOLEAN :
       /\ signInPutDoneWriteFails(ok)
       /\ rpc' = step("handleSignIn", "setItem", handleSignInEnds("setItem"))
       /\ UNCHANGED last
  \/ \E res \in getResults :
       /\ sessionLoaded(res)
       /\ rpc' = step("checkExistingSession", "none", checkExistingSessionEnds("none"))
       /\ UNCHANGED last
  \/ \E res \in getResults :
       /\ sessionLoadedWriteFails(res)
       /\ rpc' = step("checkExistingSession", "setItem", checkExistingSessionEnds("setItem"))
       /\ UNCHANGED last

SpecFailures == Init /\ [][NextFailures]_vars

\* The rules engine on one device, with amounts whose XP stops short of a
\* level threshold that the rewards of the achievements then cross: 19000
\* gives 760 XP (level 5 is at 800), 90000 gives 3600 (level 10 is at 4000).
RuleAmounts == {2000, 19000, 90000}

NextRules ==
  \/ Tick(1) /\ last' = report("tick") /\ UNCHANGED rpc
  \/ \E amount \in RuleAmounts :
       addWater(amount) /\ last' = addWaterReport(amount) /\ UNCHANGED rpc
  \/ checkNewDay /\ last' = checkNewDayReport /\ UNCHANGED rpc
  \/ init /\ last' = report("init") /\ UNCHANGED rpc

SpecRules == Init /\ [][NextRules]_vars

\* The signed-in user with a remote that is available: every GET returns the
\* document and every PUT is applied.  Water is logged while signed in only,
\* the clock stands still.  What the browser and the remote do by themselves
\* (the timer firing, a request being answered, the handler resuming) is
\* bound to happen; what the user does is not.
NextLive ==
  \/ \E amount \in SyncAmounts :
       /\ isAuthenticated /\ Len(calls) < MaxSyncCalls
       /\ addWater(amount) /\ UNCHANGED <<last, rpc>>
  \/ handleSignIn /\ UNCHANGED <<last, rpc>>
  \/ signInLoaded(cloud) /\ UNCHANGED <<last, rpc>>
  \/ signInPutDone(TRUE) /\ UNCHANGED <<last, rpc>>
  \/ handleSignOut /\ UNCHANGED <<last, rpc>>
  \/ timerFires /\ UNCHANGED <<last, rpc>>
  \/ \E m \in inflight : remoteHandles(m, TRUE) /\ UNCHANGED <<last, rpc>>

SpecLive ==
  /\ Init
  /\ [][NextLive]_vars
  /\ WF_vars(signInLoaded(cloud) /\ UNCHANGED <<last, rpc>>)
  /\ WF_vars(signInPutDone(TRUE) /\ UNCHANGED <<last, rpc>>)
  /\ WF_vars(timerFires /\ UNCHANGED <<last, rpc>>)
  /\ WF_vars(\E m \in inflight : remoteHandles(m, TRUE) /\ UNCHANGED <<last, rpc>>)

\* loadState on documents that lack fields.  fullDoc is a document with
\* every field, none at its default; StoredDocs are fullDoc itself, fullDoc
\* without one top-level key, and fullDoc whose settings or stats object
\* holds only some of its keys.
fullDoc ==
  [ defaultState EXCEPT
      !.currentIntake = 1500, !.dailyGoal = 3000, !.xp = 135, !.totalXp = 135,
      !.level = 2, !.streak = 1, !.lastDrinkDate = 0,
      !.history = << [amount |-> 1500, timestamp |-> 0, date |-> 0] >>,
      !.achievements = [id \in AchIds |->
                          IF id \in {"first_drop", "liter_club"} THEN 0 ELSE Null],
      !.settings = [ soundEnabled |-> FALSE, notificationsEnabled |-> TRUE,
                     reminderInterval |-> 30, startTime |-> "09:00",
                     endTime |-> "21:00" ],
      !.stats = [ totalDays |-> 1, totalWater |-> 1500, perfectDays |-> 1,
                  bestStreak |-> 1, glassesCount |-> 1 ] ]

StoredDocs ==
  {fullDoc}
  \cup { [k \in (DOMAIN fullDoc) \ {gone} |-> fullDoc[k]] : gone \in DOMAIN fullDoc }
  \cup { [fullDoc EXCEPT !.settings = [f \in kept |-> fullDoc.settings[f]]] :
           kept \in (SUBSET DOMAIN fullDoc.settings) \ {{}} }
  \cup { [fullDoc EXCEPT !.stats = [f \in kept |-> fullDoc.stats[f]]] :
           kept \in (SUBSET DOMAIN fullDoc.stats) \ {{}} }

\* The constructor has built the default state; the local store holds a
\* document of StoredDocs.
InitStored ==
  /\ state = defaultState
  /\ store \in { {doc} : doc \in StoredDocs }
  /\ cloud = {}
  /\ session = FALSE
  /\ isAuthenticated = FALSE
  /\ syncTimer = noTimer
  /\ flow = noFlow
  /\ inflight = {}
  /\ now = 0
  /\ calls = << >>
  /\ resets = 0
  /\ last = report("constructor")
  /\ rpc = noRpc

\* The first statement of init: this.loadState().
initLoadState ==
  /\ state' = loadState(defaultState, store)
  /\ last' = report("loadState")
  /\ UNCHANGED <<store, cloud, session, isAuthenticated, syncTimer, flow,
                 inflight, now, calls, resets, rpc>>

NextLoad == initLoadState

SpecLoad == InitStored /\ [][NextLoad]_vars

\* ------------------------------------------------------------------ claims
\* Helpers of the statements below.
RECURSIVE Sum(_)
Sum(q) == IF q = << >> THEN 0 ELSE Head(q) + Sum(Tail(q))

\* The level the Level Table gives to totalXp x: the L with
\* xpRequired(L) <= x < xpRequired(L+1), or 10 from xpRequired(10) on.
TableLevel(x) ==
  CHOOSE L \in 1..10 : levels[L] <= x /\ (L = 10 \/ x < levels[L + 1])

\* The sum of the amounts of the entries of history h whose date field is d.
RECURSIVE DatedSum(_, _)
DatedSum(h, d) ==
  IF h = << >> THEN 0
  ELSE (IF Head(h).date = d THEN Head(h).amount ELSE 0) + DatedSum(Tail(h), d)

\* The achievements present in state t and absent from state s.
NewlyUnlocked(s, t) ==
  { id \in AchIds : s.achievements[id] = Null /\ t.achievements[id] # Null }

RECURSIVE RewardSum(_)
RewardSum(ids) ==
  IF ids = {} THEN 0
  ELSE LET id == CHOOSE x \in ids : TRUE IN xpOf(id) + RewardSum(ids \ {id})

Max(x, y) == IF x >= y THEN x ELSE y

\* The state is the one the local store holds (every mutation saved it).
Saved == store = {JSONstringify(state)}

\* C1: in every reachable state, state.level is the level the Level Table
\* gives to state.totalXp (10 from 4000 on).
C1_LevelMatchesTable == state.level = TableLevel(state.totalXp)

\* C1 witness: the sign-in merge has adopted a remote copy (the local store
\* still holds the superseded state) whose level is 10.
C1_Witness ==
  /\ flow.pc = "signInPut"
  /\ ~Saved
  /\ state.level = 10
  /\ state.totalXp >= levels[10]

\* C2: from the initial state, after any addWater calls, stats.totalWater is
\* the sum of the amounts logged, history has one entry per call, and
\* stats.glassesCount is the length of history.
C2_TotalsMatchCalls ==
  /\ state.stats.totalWater = Sum(calls)
  /\ Len(state.history) = Len(calls)
  /\ state.stats.glassesCount = Len(state.history)

\* C2 witness: three calls with different amounts have been logged.
C2_Witness ==
  /\ Len(calls) = 3
  /\ calls[1] # calls[2]
  /\ calls[2] # calls[3]
  /\ state.stats.totalWater > 0

\* C3: stats.bestStreak >= streak in every reachable state.
C3_BestStreakBound == state.stats.bestStreak >= state.streak

\* C3 witness: the goal was reached on two consecutive days (streak 2).
C3_Witness == state.streak >= 2 /\ state.stats.bestStreak = state.streak

\* C4: whenever lastDrinkDate is set, currentIntake is the sum of the
\* amounts of the history entries dated lastDrinkDate.
C4_IntakeIsDaySum ==
  state.lastDrinkDate # Null =>
    state.currentIntake = DatedSum(state.history, state.lastDrinkDate)

\* C5: an addWater(amount) call triggers the goal-reached transition iff
\* previousIntake < dailyGoal <= previousIntake + amount; when triggered,
\* streak grows by 1, bestStreak becomes max(bestStreak, streak), perfectDays
\* and totalDays grow by 1 and the bonus is exactly 100 XP (totalXp grows by
\* floor(amount/25) + 100 + the rewards of the achievements unlocked); when
\* not triggered, streak, bestStreak, perfectDays and totalDays are unchanged.
C5_GoalTransition ==
  [][ last'.op = "addWater" =>
        LET amount == last'.amount
            previousIntake == state.currentIntake
            triggered == /\ previousIntake < state.dailyGoal
                         /\ state.dailyGoal <= previousIntake + amount
            rewards == RewardSum(NewlyUnlocked(state, state'))
        IN  /\ last'.goalReached <=> triggered
            /\ triggered =>
                 /\ state'.streak = state.streak + 1
                 /\ state'.stats.bestStreak =
                      Max(state.stats.bestStreak, state'.streak)
                 /\ state'.stats.perfectDays = state.stats.perfectDays + 1
                 /\ state'.stats.totalDays = state.stats.totalDays + 1
                 /\ state'.totalXp - state.totalXp
                      = (amount \div 25) + 100 + rewards
            /\ ~triggered =>
                 /\ state'.streak = state.streak
                 /\ state'.stats.bestStreak = state.stats.bestStreak
                 /\ state'.stats.perfectDays = state.stats.perfectDays
                 /\ state'.stats.totalDays = state.stats.totalDays
                 /\ state'.totalXp - state.totalXp = (amount \div 25) + rewards
    ]_vars

\* C5 witness: a glass of 250 has crossed the goal (the intake before it was
\* above 0 and below the goal) and the streak went from 1 to 2.
C5_Witness ==
  /\ last.op = "addWater"
  /\ last.goalReached
  /\ last.amount = 250
  /\ state.currentIntake > 250
  /\ state.streak = 2

\* C6, as claimed: addWater(2000) with dailyGoal 2000 and intake 0 reaches
\* the goal, adds 1 to streak and raises totalXp by floor(2000/25) + 100 = 180.
C6_Claim ==
  [][ (last'.op = "addWater" /\ last'.amount = 2000
         /\ state.dailyGoal = 2000 /\ state.currentIntake = 0) =>
        /\ last'.goalReached
        /\ state'.streak = state.streak + 1
        /\ state'.totalXp - state.totalXp = 180
    ]_vars

\* C6, amended: addWater(2000) with dailyGoal 2000 and intake 0 reaches the
\* goal, adds 1 to streak, shows an XP gain of floor(2000/25) = 80 and raises
\* totalXp by 180 plus the rewards of the achievements the call unlocks.
C6_Amended ==
  [][ (last'.op = "addWater" /\ last'.amount = 2000
         /\ state.dailyGoal = 2000 /\ state.currentIntake = 0) =>
        /\ last'.goalReached
        /\ state'.streak = state.streak + 1
        /\ last'.xpGained = 80
        /\ state'.totalXp - state.totalXp
             = 180 + RewardSum(NewlyUnlocked(state, state'))
    ]_vars

\* C6 witness: such a call has happened and has unlocked achievements (so
\* that totalXp grew by more than 180).
C6_Witness ==
  /\ last.op = "addWater"
  /\ last.amount = 2000
  /\ state.dailyGoal = 2000
  /\ state.currentIntake = 2000
  /\ last.goalReached
  /\ last.unlocked # << >>

\* C7: checkNewDay with lastDrinkDate exactly yesterday sets streak to 0 when
\* the amounts dated yesterday sum to less than dailyGoal and leaves streak
\* as it is otherwise; currentIntake becomes 0 either way.
C7_YesterdayRollover ==
  [][ (last'.op = "checkNewDay" /\ state.lastDrinkDate # Null
         /\ state.lastDrinkDate = today - 1) =>
        /\ state'.streak =
             IF DatedSum(state.history, today - 1) < state.dailyGoal
               THEN 0 ELSE state.streak
        /\ state'.currentIntake = 0
    ]_vars

\* C7 witness: checkNewDay found yesterday's total below the goal while the
\* streak was positive, and reset it.
C7_Witness ==
  /\ last.op = "checkNewDay"
  /\ last.branch = "yesterdayMissed"
  /\ last.prevStreak >= 1
  /\ state.streak = 0
  /\ state.currentIntake = 0

\* C8: checkNewDay with lastDrinkDate at least 2 days before today sets
\* streak to 0 and currentIntake to 0, whatever the totals and the goal.
C8_GapRollover ==
  [][ (last'.op = "checkNewDay" /\ state.lastDrinkDate # Null
         /\ state.lastDrinkDate <= today - 2) =>
        /\ state'.streak = 0
        /\ state'.currentIntake = 0
    ]_vars

\* C8 witness: checkNewDay ran after a gap, the day before the gap having
\* reached the goal (positive streak, total at least the goal).
C8_Witness ==
  /\ last.op = "checkNewDay"
  /\ last.branch = "gap"
  /\ last.prevStreak >= 1
  /\ DatedSum(state.history, state.lastDrinkDate) >= state.dailyGoal
  /\ state.streak = 0

\* C9: checkNewDay changes no field of the state when lastDrinkDate is unset
\* or is today.
C9_SameDayNoOp ==
  [][ (last'.op = "checkNewDay"
         /\ (state.lastDrinkDate = Null \/ state.lastDrinkDate = today)) =>
        state' = state
    ]_vars

\* C9 witness: checkNewDay ran on the day of the last drink, with a positive
\* intake and a positive streak to lose.
C9_Witness ==
  /\ last.op = "checkNewDay"
  /\ last.branch = "sameDay"
  /\ state.currentIntake > 0
  /\ state.streak >= 1

\* C10: in every branch checkNewDay changes no field other than streak and
\* currentIntake.
C10_RolloverFrame ==
  [][ last'.op = "checkNewDay" =>
        state' = [state EXCEPT !.streak = state'.streak,
                               !.currentIntake = state'.currentIntake]
    ]_vars

\* C10 witness: checkNewDay has reset streak and currentIntake of a state
\* with history, achievements, XP and a best streak.
C10_Witness ==
  /\ last.op = "checkNewDay"
  /\ last.branch \in {"yesterdayMissed", "gap"}
  /\ last.prevStreak >= 1
  /\ state.streak = 0
  /\ state.stats.bestStreak >= 1
  /\ state.history # << >>
  /\ state.achievements["first_drop"] # Null
  /\ state.totalXp > 0

\* The amount XP of a history: floor(amount / 25) summed over its entries.
RECURSIVE AmountXp(_)
AmountXp(h) ==
  IF h = << >> THEN 0 ELSE (Head(h).amount \div 25) + AmountXp(Tail(h))

\* The achievements present in state s.
Unlocked(s) == { id \in AchIds : s.achievements[id] # Null }

\* C11: from any reachable state, an evaluation pass that follows the last
\* one with no state change in between unlocks nothing, shows nothing and
\* leaves totalXp, xp and level (the whole state) as they are.
C11_EvaluationIdempotent ==
  LET again == checkAchievements(enter("checkAchievements"))
  IN  /\ again.unlocked = << >>
      /\ again.shown = << >>
      /\ again.levelUps = << >>
      /\ again.st = state

\* C11 witness: the previous pass unlocked achievements, among them level_5
\* and level_10 in passes nested in level-ups.
C11_Witness ==
  /\ state.achievements["first_drop"] # Null
  /\ state.achievements["level_5"] # Null
  /\ state.achievements["level_10"] # Null
  /\ state.achievements["waterfall_wonder"] # Null

\* C12: without merge and reset, totalXp is the amount XP of the history,
\* plus 100 per perfect day, plus the reward of every achievement present,
\* each counted once.
C12_OneTimeGrant ==
  state.totalXp = AmountXp(state.history)
                    + 100 * state.stats.perfectDays
                    + RewardSum(Unlocked(state))

\* C12 witness: rewards were granted in a pass nested in a level-up (level_5
\* is present) after an earlier call had unlocked others.
C12_Witness ==
  /\ Len(state.history) >= 2
  /\ state.achievements["level_5"] # Null
  /\ state.achievements["getting_started"] # Null
  /\ state.stats.perfectDays >= 1
  /\ state.totalXp > AmountXp(state.history) + 100 * state.stats.perfectDays

\* C13: an achievement id, once present in state.achievements, stays present
\* with the same unlockedAt across every operation other than a reset.
C13_UnlockPermanent ==
  [][ resets' = resets =>
        \A id \in AchIds :
          state.achievements[id] # Null =>
            state'.achievements[id] = state.achievements[id]
    ]_vars

\* C14: when one addWater call unlocks several achievements, all of them are
\* given to presentation, in catalog order.
C14_AllUnlocksShown ==
  [][ last'.op = "addWater" => last'.shown = last'.unlocked ]_vars

\* C15: the merge of handleSignIn and of checkExistingSession replaces the
\* local state by the remote copy iff a remote copy was loaded and
\* remote.totalXp > local.totalXp or remote.stats.totalWater >
\* local.stats.totalWater; otherwise the local state is left unchanged.
C15_ProgressDominance ==
  [][ \A res \in getResults :
        (signInLoaded(res) \/ sessionLoaded(res)) =>
          IF res # {} /\ \E remote \in res :
                           \/ remote.totalXp > state.totalXp
                           \/ remote.stats.totalWater > state.stats.totalWater
            THEN state' \in res
            ELSE state' = state
    ]_vars

\* C15 witness: handleSignIn has adopted a remote copy that has less totalXp
\* than the local state it replaced (still in the local store) and more
\* totalWater.
C15_Witness ==
  /\ flow.pc = "signInPut"
  /\ \E d \in store : /\ d.totalXp > state.totalXp
                      /\ d.stats.totalWater < state.stats.totalWater

\* C16: once the merge and the remote calls it started have completed
\* successfully, the local store and the remote document both hold the
\* winning state: on the sign-in path when saveToCloud has resolved to true
\* (the document is the state the merge produced and the store the current
\* state), on the resumed-session path when loadFromCloud has delivered the
\* remote copy and the merge is done.
C16_WinnerInBothStores ==
  [][ /\ (signInPutDone(TRUE) /\ flow.body # {}) =>
           /\ cloud' = flow.body
           /\ store' = {JSONstringify(state')}
      /\ \A res \in getResults :
           (sessionLoaded(res) /\ res # {}) =>
             /\ store' = {JSONstringify(state')}
             /\ cloud' = {JSONstringify(state')}
    ]_vars

\* C17: when the debounce timer fires while the session is valid, the one
\* PUT it sends carries the state as of the last mutation, that is the
\* current state.
C17_PutCarriesLatest ==
  [][ (timerFires /\ session) =>
        [kind |-> "PUT", body |-> {JSONstringify(state)}] \in inflight'
    ]_vars

\* C18: whenever control is back in the event loop or a handler is suspended
\* on a remote call, the local store holds the in-memory state.
C18_LocalStoreCurrent ==
  /\ store # {}
  /\ \A d \in store : d = JSONstringify(state)

\* C19: an addWater call runs to completion in one step whatever the remote
\* is doing (a GET, PUT or DELETE pending or failing, signed in or out): the
\* entry is logged and the state written to the local store in that step,
\* and the pending remote calls and the remote document are left alone.
C19_LoggingNeverBlocked ==
  [][ calls' # calls =>
        /\ Len(state'.history) = Len(state.history) + 1
        /\ state'.stats.totalWater = state.stats.totalWater + calls'[Len(calls')]
        /\ store' = {JSONstringify(state')}
        /\ flow' = flow
        /\ inflight' = inflight
        /\ cloud' = cloud
    ]_vars

\* C19 witness: while handleSignIn is suspended on its PUT, a call has been
\* logged and stored (the state has an entry the PUT body has not).
C19_Witness ==
  /\ flow.pc = "signInPut"
  /\ store = {JSONstringify(state)}
  /\ \E d \in flow.body : Len(state.history) > Len(d.history)

\* C20: no SyncManager method raises to its caller.  loadFromCloud resolves
\* to null without a token, on 404, on any other non-2xx status and on any
\* token or network error (and to the document only on a 2xx whose body
\* parses); saveToCloud and deleteFromCloud resolve to true on a 2xx answer
\* to a request sent with a token, and to false in every other case.
C20_RemoteNeverRaises ==
  LET failed == \/ rpc.token # "token"
                \/ rpc.res.kind = "rejects"
                \/ rpc.res.status < 200
                \/ rpc.res.status > 299
  IN  rpc.op # "none" =>
        /\ rpc.result.kind = "return"
        /\ rpc.op = "loadFromCloud" =>
             /\ failed => rpc.result.value = {}
             /\ rpc.result.value # {} =>
                  ~failed /\ rpc.res.json = "parses" /\ rpc.result.value = cloud
        /\ rpc.op \in {"saveToCloud", "deleteFromCloud"} =>
             (rpc.result.value = TRUE <=> ~failed)

\* C20 witness: saveToCloud, called with a token on a state with progress,
\* met a network error and resolved to false.
C20_Witness ==
  /\ rpc.op = "saveToCloud"
  /\ rpc.token = "token"
  /\ rpc.res.kind = "rejects"
  /\ rpc.result = returns(FALSE)
  /\ state.totalXp > 0

C22_ResetIsFinal ==
  [][ ( /\ resets > 0
        /\ [kind |-> "DELETE", body |-> {}] \in inflight
        /\ state.history = << >>
        /\ state.totalXp = 0
        /\ calls' = calls ) =>
        /\ state'.history = << >>
        /\ state'.totalXp = 0
    ]_vars

\* C23: level never decreases on any step other than a reset.
C23_LevelMonotonic ==
  [][ resets' = resets => state'.level >= state.level ]_vars

\* C24: totalXp never decreases on any step other than a reset.
C24_TotalXpMonotonic ==
  [][ resets' = resets => state'.totalXp >= state.totalXp ]_vars

\* C25: on any step other than a reset, the history before the step is a
\* prefix of the history after it.
C25_HistoryAppendOnly ==
  [][ resets' = resets =>
        /\ Len(state'.history) >= Len(state.history)
        /\ SubSeq(state'.history, 1, Len(state.history)) = state.history
    ]_vars

\* The calendar days on which history h has an entry.
DaysLogged(h) == { h[i].date : i \in 1..Len(h) }

\* C26: streak grows by at most 1 within one calendar day; hence, from the
\* initial state and without merge, streak is at most the number of
\* calendar days on which something was logged.
C26_StreakPerDay ==
  state.streak <= Cardinality(DaysLogged(state.history))

\* C27: dailyGoal is within 500..5000 in every reachable state, whatever
\* goal values the settings edits ask for.
C27_GoalInRange ==
  state.dailyGoal >= 500 /\ state.dailyGoal <= 5000

\* C27 witness: with the goal at 5000, a settings edit asking for another
\* goal, which was not 500 (the toggles are those sent with a goal other
\* than 5000), has left the goal at 5000.
C27_Witness ==
  /\ last.op = "saveSettings"
  /\ state.dailyGoal = 5000
  /\ state.settings.soundEnabled
  /\ ~state.settings.notificationsEnabled

\* C28: level 10 is terminal: from level 10 every step leaves level 10, and
\* getXPForCurrentLevel gives the sentinel (current 0, required 1, 100 %);
\* below level 10 it gives current = totalXp - xpRequired(level) and
\* required = xpRequired(level + 1) - xpRequired(level), with
\* 0 <= current < required.
C28_TopLevelTerminal ==
  /\ [] LET g == getXPForCurrentLevel(state)
        IN  IF state.level = 10
              THEN g = [ current |-> 0, required |-> 1,
                         percentage |-> [num |-> 100, den |-> 1] ]
              ELSE /\ g.current = state.totalXp - levels[state.level]
                   /\ g.required = levels[state.level + 1] - levels[state.level]
                   /\ 0 <= g.current
                   /\ g.current < g.required
  /\ [][ state.level = 10 => state'.level = 10 ]_vars

\* C28 witness: XP was added at level 10 (a second call was logged with
\* totalXp already past the last threshold).
C28_Witness ==
  /\ state.level = 10
  /\ Len(state.history) >= 2
  /\ state.totalXp - (state.history[Len(state.history)].amount \div 25)
       >= levels[10] + 1000

\* C29: a sign-in whose authentication is rejected leaves the in-memory
\* state, the local store and the authenticated flag as they were, and issues
\* no remote request: nothing is sent, nothing is awaited, no timer is armed.
C29_FailedSignInIsInert ==
  [][ (rpc'.op = "handleSignIn" /\ rpc'.threw = "signIn") =>
        /\ state' = state
        /\ store' = store
        /\ isAuthenticated' = isAuthenticated
        /\ session' = session
        /\ leftOnWire' = leftOnWire
        /\ flow' = flow
        /\ syncTimer' = syncTimer
        /\ cloud' = cloud ]_vars

C29_Witness ==
  /\ rpc.op = "handleSignIn"
  /\ rpc.threw = "signIn"
  /\ ~isAuthenticated
  /\ state.totalXp > 0
  /\ store = {JSONstringify(state)}

\* C30: on every path that writes the local store, a write that fails ends
\* the handler with the exception (it is not swallowed), and that step arms
\* no sync timer and sends nothing.
C30_WriteFailurePropagates ==
  [][ (rpc'.op # "none" /\ rpc'.threw = "setItem") =>
        /\ rpc'.result.kind = "throw"
        /\ syncTimer'.armed => syncTimer.armed
        /\ leftOnWire' \subseteq leftOnWire ]_vars

\* C31: in every reachable state, and so whenever addWater has returned,
\* every achievement of the catalog whose condition holds on the state is
\* present in state.achievements; this includes level_5 and level_10 when
\* the level they ask for was reached through the rewards of other
\* achievements of the same call.
C31_AchievementClosure ==
  \A id \in AchIds : condition(id, state) => state.achievements[id] # Null

\* C31 witness: an addWater call has unlocked level_5, and the XP of the
\* water logged (totalXp less the rewards of the achievements this call
\* unlocked and less its goal bonus) is below the threshold of level 5: the
\* level was reached while the rewards were being granted.
C31_Witness ==
  /\ last.op = "addWater"
  /\ \E i \in 1..Len(last.unlocked) : last.unlocked[i] = "level_5"
  /\ state.achievements["level_5"] # Null
  /\ state.totalXp
       - RewardSum({ last.unlocked[i] : i \in 1..Len(last.unlocked) })
       - (IF last.goalReached THEN 100 ELSE 0)
       < levels[5]

\* C32: when the merge of sign-in or of a resumed session adopts a remote
\* copy whose lastDrinkDate is set and is not today, the state the handler
\* goes on with (and persists) has been through the day rollover:
\* currentIntake is 0 and streak is what the rollover rule gives.
C32_RolloverOnMerge ==
  [][ \A res \in getResults :
        ( /\ signInLoaded(res) \/ sessionLoaded(res)
          /\ state' # state
          /\ state'.lastDrinkDate # Null
          /\ merged(state, res).lastDrinkDate # today ) =>
          /\ state'.currentIntake = 0
          /\ state'.streak = checkNewDayBody(merged(state, res)).streak ]_vars

\* C33: while handleSignIn or checkExistingSession waits for the remote copy
\* (the merge comparison has not been made), no PUT is sent, and a remote
\* document that wins over the local state is not replaced by that state.
C33_NoPutBeforeMerge ==
  [][ flow.pc \in {"signInLoad", "sessionLoad"} =>
        /\ flow'.pc = flow.pc =>
              \A m \in inflight' \ inflight : m.kind # "PUT"
        /\ (cloud # {} /\ cloudWins(CHOOSE d \in cloud : TRUE, state)) =>
              cloud' # {JSONstringify(state)} ]_vars

\* C34: when the debounce timer fires, the PUT it sends carries this.state as
\* it is at that moment, also when a merge has replaced the state since the
\* write was scheduled.
C34_TimerSendsCurrentState ==
  [][ timerFires =>
        \A m \in inflight' \ inflight :
          m.kind = "PUT" => m.body = {JSONstringify(state)} ]_vars

\* C35: at most one PUT is pending at any time, counting the upload that
\* handleSignIn awaits and the PUTs that timers have sent.
C35_OnePutAtATime ==
  (IF flow.pc = "signInPut" /\ flow.body # {} THEN 1 ELSE 0)
    + Cardinality({ m \in inflight : m.kind = "PUT" }) <= 1

\* C36: with a remote that accepts writes, a write scheduled by a mutation
\* made while signed in is followed by a moment at which the remote document
\* equals the local state, also when the user signs out before the timer
\* fires.
C36_MutationReachesRemote ==
  (isAuthenticated /\ syncTimer.armed) ~> (cloud = {JSONstringify(state)})

\* C37: when the merge finds that the remote copy wins over the local state,
\* the local state does not win over the remote copy in turn, and the state
\* kept has no less totalXp and no less stats.totalWater than the local
\* state had.
C37_DominanceAsymmetric ==
  [][ \A res \in getResults :
        ( /\ signInLoaded(res) \/ sessionLoaded(res)
          /\ res # {}
          /\ cloudWins(CHOOSE d \in res : TRUE, state) ) =>
          /\ ~cloudWins(state, CHOOSE d \in res : TRUE)
          /\ state'.totalXp >= state.totalXp
          /\ state'.stats.totalWater >= state.stats.totalWater ]_vars

\* C38: in every reachable state, checkNewDay run now, then any settings
\* edit, then checkNewDay run again at the same instant (no addWater in
\* between) leaves streak and currentIntake as the first run left them.
C38_CheckNewDayIdempotent ==
  \A in \in SettingsInputs :
    LET first  == checkNewDayBody(state)
        edited == saveSettingsBody(first, in.goal, in.sound, in.notif)
        second == checkNewDayBody(edited)
    IN  /\ second.streak = first.streak
        /\ second.currentIntake = first.currentIntake

\* The document doc completed with the defaults: a missing top-level field,
\* and a missing field of settings or of stats, holds its default value;
\* every field that is present holds its stored value.
WithDefaults(doc) ==
  [ k \in DOMAIN defaultState |->
      IF k \notin DOMAIN doc THEN defaultState[k]
      ELSE IF k \in {"settings", "stats"}
        THEN [ f \in DOMAIN defaultState[k] |->
                 IF f \in DOMAIN doc[k] THEN doc[k][f] ELSE defaultState[k][f] ]
      ELSE doc[k] ]

\* C39: after loadState on a stored document that lacks some field, at top
\* level or inside settings or stats, every field of the state is defined:
\* the missing ones hold their defaults, the present ones their stored
\* values.
C39_LoadFillsDefaults ==
  last.op = "loadState" =>
    /\ DOMAIN state = DOMAIN defaultState
    /\ DOMAIN state.settings = DOMAIN defaultState.settings
    /\ DOMAIN state.stats = DOMAIN defaultState.stats
    /\ state = WithDefaults(CHOOSE doc \in store : TRUE)

====
